---- MODULE Spec2Model ----
(***************************************************************************)
(* Wind-power day-ahead bidding under one-price and two-price imbalance    *)
(* settlement (Assignment_2): the linear program of Task 1.1/1.2, the      *)
(* closed-form evaluator and the k-fold cross-validation of Task 1.3.      *)
(*                                                                         *)
(* Money is exact.  The source's multipliers 0.85, 1.00 and 1.25 are the   *)
(* integers 17, 20 and 25 (twentieths), so every sum of settlement terms   *)
(* is an integer number of twentieths; a division (a mean) yields a        *)
(* rational in lowest terms.  Floating-point rounding is not modelled.     *)
(*                                                                         *)
(* Hours are 0..horizon-1 as in the source's range(24).  The bounded       *)
(* specifications scale the horizon and the capacity down; SpecConcrete    *)
(* runs the source's 24 hours.                                             *)
(***************************************************************************)
EXTENDS Integers, Sequences, FiniteSets, TLC

\* ------------------------------------------------------------------ bounds
\* Hours of the scaled horizon (the source has 24).
NumHours == 2
\* Scaled bidding capacity in MW (the source has 500).
MaxCap == 2
\* Largest scenario subset handed to the evaluator and to a single solve.
MaxEvalScen == 2
\* Largest amount by which a solution raises excess and deficit together.
MaxSlack == 1
\* Largest population handed to the cross-validation.
PopSize == 3
\* Largest number of requested fold sizes.
MaxSizes == 2
\* Largest scenario subset handed to a risk-adjusted solve.
MaxRiskScen == 3
\* Largest number of price, of wind and of system-state series combined.
MaxSeries == 2

\* --------------------------------------------------------------- constants
\* range(24): the hours of the source's horizon.
Horizon24 == 24

VARIABLES
    horizon,            \* number of hours of model.T / range(24)
    max_capacity,       \* the module-level max_capacity
    scheme,             \* "one" | "two"
    variant,            \* which file's solve_and_extract runs
    in_sample,          \* the scenario list handed to the evaluator / the solve
    fixed_bid,          \* a fixed bid vector (evaluator input)
    price_data_da,      \* create_combined_scenarios: the price series
    wind_data,          \* ... the wind series (fractions of the capacity)
    power_scenarios,    \* ... the system-state series
    wind_capacity,      \* ... the capacity factor
    betas,              \* Task_1_4.py: the risk weights the script loops over
    alpha,              \* Task_1_4.py: the CVaR level of solve_and_extract
    solver,             \* which optimal vertex SolverFactory('gurobi') hands back
    eval_profit,        \* what evaluate_profit returned for fixed_bid
    lp_revenue,         \* the LP objective maximised with the bid fixed
    result,             \* the solver's result of the last solve
    solution,           \* the variable values the last solve loaded into the model
    ret,                \* what the last call of solve_and_extract returned or raised
    read_after_failure, \* a model variable was read after a failed status check
    all_scenarios,      \* the population handed to run_cross_validation_for_sizes
    shuffle_order,      \* the order random.shuffle gives under random.seed(42)
    in_sample_sizes,    \* the requested fold sizes
    size_index,         \* how many of them the outer loop has taken
    scenarios_copy,     \* the shuffled copy
    folds,              \* the folds of the current size
    fold_index,         \* i of the fold loop: the folds done
    out_sample,         \* the out-of-sample list of the last fold run
    in_sample_profits,
    out_sample_profits,
    results,            \* the local list of summary records
    results_df,         \* what the caller received from the call (None: nothing)
    raised,             \* the exception that left the call (None: none)
    solve_log,          \* history: the solves the call attempted, in order
    pc                  \* control location

scenarioInputs == <<price_data_da, wind_data, power_scenarios, wind_capacity>>
riskInputs == <<betas, alpha>>
cfgVars == <<horizon, max_capacity, scheme, variant, fixed_bid, scenarioInputs, riskInputs,
             solver>>
evalVars == <<eval_profit, lp_revenue>>
solveVars == <<result, solution, ret, read_after_failure>>

cvInputs == <<all_scenarios, shuffle_order, in_sample_sizes>>
cvLocals == <<size_index, scenarios_copy, folds, fold_index, out_sample,
              in_sample_profits, out_sample_profits, results>>
cvOut == <<results_df, raised, solve_log>>
cvVars == <<cvInputs, cvLocals, cvOut>>

vars == <<cfgVars, evalVars, solveVars, cvVars, pc>>

\* ---------------------------------------------------------------- values
Schemes == {"one", "two"}

\* The file whose solve_and_extract runs: Task1/Task_1.1_1.2_1.3.py (T13),
\* Task_1.py (T1).
Variants == {"T13", "T1"}

None == [tag |-> "none"]
\* float('nan'), what np.mean([]) returns
NaN == [tag |-> "nan"]
\* A raised exception, and the solver status it carries (None: none).
Raised(exc) == [tag |-> "raise", exc |-> exc, carries |-> None]

RECURSIVE GCD(_, _)
GCD(a, b) == IF b = 0 THEN a ELSE GCD(b, a % b)

Abs(x) == IF x < 0 THEN 0 - x ELSE x

\* The rational n/d (d > 0) in lowest terms.
Rat(n, d) ==
    LET g == GCD(Abs(n), d)
    IN  [tag |-> "num", n |-> n \div g, d |-> d \div g]

RatAdd(x, y) == Rat(x.n * y.d + y.n * x.d, x.d * y.d)
RatSub(x, y) == Rat(x.n * y.d - y.n * x.d, x.d * y.d)
RatDiv(x, k) == Rat(x.n, x.d * k)
RatLeq(x, y) == x.n * y.d <= y.n * x.d
RatMul(x, y) == Rat(x.n * y.n, x.d * y.d)

RECURSIVE SumFn(_, _, _)
SumFn(f, lo, hi) == IF lo > hi THEN 0 ELSE f[lo] + SumFn(f, lo + 1, hi)

\* model.T = Set(initialize=range(24))
T == 0 .. (horizon - 1)

\* --------------------------------------------------------- scenario data
\* A trajectory over the hours that starts at a and steps by d, modulo m.
Trajectory(a, d, m) == [t \in T |-> (a + d * t) % m]

\* Wind production: none, a little, more than the capacity.
WindTrajectories ==
    <<Trajectory(0, 0, 1), Trajectory(1, 0, 2), Trajectory(max_capacity + 1, 0, max_capacity + 2)>>
\* Day-ahead prices: negative throughout, positive throughout, and positive
\* but for a first hour zeroed as in price_data_zeroed.xlsx.
PriceTrajectories ==
    <<[t \in T |-> 0 - 1], [t \in T |-> 2], [t \in T |-> IF t = 0 THEN 0 ELSE 2]>>
\* The system flag alternates over the hours, from 0 or from 1.
SystemTrajectories == <<Trajectory(0, 1, 2), Trajectory(1, 1, 2)>>
BidTrajectories ==
    {Trajectory(a, d, max_capacity + 1) : a \in 0 .. max_capacity, d \in {0, 1}}

\* The scenario dicts of create_combined_scenarios, one per combination of a
\* wind, a price and a system trajectory, in the order of its nested loops
\* (prices outermost, system flags innermost).
ScenarioPool ==
    [c \in 1 .. (Len(PriceTrajectories) * Len(WindTrajectories) * Len(SystemTrajectories)) |->
        [price_da |-> PriceTrajectories[
                         ((c - 1) \div (Len(WindTrajectories) * Len(SystemTrajectories))) + 1],
         wind |-> WindTrajectories[
                         (((c - 1) \div Len(SystemTrajectories)) % Len(WindTrajectories)) + 1],
         system |-> SystemTrajectories[((c - 1) % Len(SystemTrajectories)) + 1]]]

\* ------------------------------------------------ the objective's summand
\* The summand with the one-price scheme's surplus-hour multiplier 1.25 taken
\* for 0.85: imbalance is settled at 0.85 in every hour.
RevenueTermFlatOnePrice(sch, sc, t, offer, exc, def) ==
    20 * sc.price_da[t] * offer
    + (IF sch = "one"
       THEN (17 * sc.price_da[t] * exc - 17 * sc.price_da[t] * def) * sc.system[t]
       ELSE (17 * sc.price_da[t] * exc - 20 * sc.price_da[t] * def) * sc.system[t])
    + (IF sch = "one"
       THEN (17 * sc.price_da[t] * exc - 17 * sc.price_da[t] * def) * (1 - sc.system[t])
       ELSE (20 * sc.price_da[t] * exc - 25 * sc.price_da[t] * def) * (1 - sc.system[t]))

\* The summand with the two-price deficit of a deficit hour (flag 1) settled
\* at the excess multiplier 0.85 instead of 1.00.
RevenueTermDeficitAtExcessPrice(sch, sc, t, offer, exc, def) ==
    20 * sc.price_da[t] * offer
    + (IF sch = "one"
       THEN (17 * sc.price_da[t] * exc - 17 * sc.price_da[t] * def) * sc.system[t]
       ELSE (17 * sc.price_da[t] * exc - 17 * sc.price_da[t] * def) * sc.system[t])
    + (IF sch = "one"
       THEN (25 * sc.price_da[t] * exc - 25 * sc.price_da[t] * def) * (1 - sc.system[t])
       ELSE (20 * sc.price_da[t] * exc - 25 * sc.price_da[t] * def) * (1 - sc.system[t]))

\* One (s, t) summand of revenue(m), in twentieths.
RevenueTerm(sch, sc, t, offer, exc, def) ==
    20 * sc.price_da[t] * offer
    + (IF sch = "one"
       THEN (17 * sc.price_da[t] * exc - 17 * sc.price_da[t] * def) * sc.system[t]
       ELSE (17 * sc.price_da[t] * exc - 20 * sc.price_da[t] * def) * sc.system[t])
    + (IF sch = "one"
       THEN (25 * sc.price_da[t] * exc - 25 * sc.price_da[t] * def) * (1 - sc.system[t])
       ELSE (20 * sc.price_da[t] * exc - 25 * sc.price_da[t] * def) * (1 - sc.system[t]))

\* ------------------------------------------------------ the linear program
Pos(x) == IF x > 0 THEN x ELSE 0

\* The offer's bounds with the upper one a megawatt too high.
OfferBoundsAboveCapacity == 0 .. (max_capacity + 1)

\* bounds=(0, max_capacity) of model.offer_quantity
OfferBounds == 0 .. max_capacity

\* The (delta_exc, delta_def) pairs, both NonNegativeReals, that ImbalanceDef
\* and DeltaDecomp allow in scenario sc at hour t for an offer:
\* delta = wind - offer and delta = delta_exc - delta_def.  They are the
\* positive and negative part of delta raised together by k >= 0.
ImbalancePairs(sc, t, offer) ==
    {<<Pos(sc.wind[t] - offer) + k, Pos(offer - sc.wind[t]) + k>> : k \in 0 .. MaxSlack}

\* Raising delta_exc and delta_def together stays feasible for ever; the
\* objective is unbounded when that direction improves a summand.
CellUnbounded(sch, sc, t, offer) ==
    \E ed \in ImbalancePairs(sc, t, offer) :
        RevenueTerm(sch, sc, t, offer, ed[1] + 1, ed[2] + 1)
            > RevenueTerm(sch, sc, t, offer, ed[1], ed[2])

\* The largest value of the (s, t) summand at a fixed offer.
CellMax(sch, sc, t, offer) ==
    LET vals == {RevenueTerm(sch, sc, t, offer, ed[1], ed[2]) :
                    ed \in ImbalancePairs(sc, t, offer)}
    IN  CHOOSE v \in vals : \A u \in vals : u <= v

\* Sum over the scenarios of the hour-t summands at their best, in twentieths.
HourObjective(sch, scen, t, offer) ==
    SumFn([s \in 1 .. Len(scen) |-> CellMax(sch, scen[s], t, offer)], 1, Len(scen))

LPUnbounded(sch, scen, offers) ==
    \E s \in 1 .. Len(scen), t \in T : CellUnbounded(sch, scen[s], t, offers[t])

\* The objective ExpectedRevenue maximised over delta_exc and delta_def with
\* offer_quantity fixed: (1 / len(in_sample)) * sum_t sum_s summand.
LPRevenueAtBid(sch, scen, offers) ==
    IF LPUnbounded(sch, scen, offers)
    THEN [tag |-> "unbounded"]
    ELSE Rat(SumFn([t \in T |-> HourObjective(sch, scen, t, offers[t])], 0, horizon - 1),
             20 * Len(scen))

\* ------------------------------------------------------------ evaluate_profit
\* The evaluator with the two-price scheme paying an excess 1.25 instead of
\* 1.00 of the day-ahead price in a surplus hour.
HourRevenueExcessAtSurplus(sch, bid, wind, p_da, system_flag) ==
    LET imbalance == wind - bid
    IN  IF imbalance >= 0
        THEN IF sch = "one"
             THEN 20 * p_da * bid + (IF system_flag = 1 THEN 17 ELSE 25) * p_da * imbalance
             ELSE 20 * p_da * bid + (IF system_flag = 1 THEN 17 ELSE 25) * p_da * imbalance
        ELSE LET deficit == 0 - imbalance
             IN  IF sch = "one"
                 THEN 20 * p_da * bid - (IF system_flag = 1 THEN 17 ELSE 25) * p_da * deficit
                 ELSE 20 * p_da * bid - (IF system_flag = 1 THEN 20 ELSE 25) * p_da * deficit

\* The revenue of one scenario hour with the multipliers of the two schemes
\* exchanged.
HourRevenueSchemesExchanged(sch, bid, wind, p_da, system_flag) ==
    LET imbalance == wind - bid
    IN  IF imbalance >= 0
        THEN IF sch = "two"
             THEN 20 * p_da * bid + (IF system_flag = 1 THEN 17 ELSE 25) * p_da * imbalance
             ELSE 20 * p_da * bid + (IF system_flag = 1 THEN 17 ELSE 20) * p_da * imbalance
        ELSE LET deficit == 0 - imbalance
             IN  IF sch = "two"
                 THEN 20 * p_da * bid - (IF system_flag = 1 THEN 17 ELSE 25) * p_da * deficit
                 ELSE 20 * p_da * bid - (IF system_flag = 1 THEN 20 ELSE 25) * p_da * deficit

\* revenue of one scenario hour, in twentieths
HourRevenue(sch, bid, wind, p_da, system_flag) ==
    LET imbalance == wind - bid
    IN  IF imbalance >= 0
        THEN IF sch = "one"
             THEN 20 * p_da * bid + (IF system_flag = 1 THEN 17 ELSE 25) * p_da * imbalance
             ELSE 20 * p_da * bid + (IF system_flag = 1 THEN 17 ELSE 20) * p_da * imbalance
        ELSE LET deficit == 0 - imbalance
             IN  IF sch = "one"
                 THEN 20 * p_da * bid - (IF system_flag = 1 THEN 17 ELSE 25) * p_da * deficit
                 ELSE 20 * p_da * bid - (IF system_flag = 1 THEN 20 ELSE 25) * p_da * deficit

ScenarioProfit(sch, offer_quantities, sc) ==
    SumFn([t \in T |-> HourRevenue(sch, offer_quantities[t], sc.wind[t],
                                    sc.price_da[t], sc.system[t])], 0, horizon - 1)

\* total_profit / len(scenarios)
evaluate_profit(offer_quantities, scenarios, sch) ==
    LET total_profit ==
            SumFn([s \in 1 .. Len(scenarios) |->
                      ScenarioProfit(sch, offer_quantities, scenarios[s])],
                  1, Len(scenarios))
    IN  IF Len(scenarios) = 0
        THEN Raised("ZeroDivisionError")
        ELSE Rat(total_profit, 20 * Len(scenarios))

\* ------------------------------------------------------------- the solver
\* sum_s of the hour-t summands at an offer, for every offer within bounds
HourObjectives(sch, scen, t) ==
    [b \in OfferBounds |-> HourObjective(sch, scen, t, b)]

\* The objective is a sum over the hours and offer_quantity[t] occurs only in
\* hour t's summands: an offer vector is optimal iff each hour's offer is.
OptimalOffers(sch, scen, t) ==
    LET obj == HourObjectives(sch, scen, t)
    IN  {b \in OfferBounds : \A b2 \in OfferBounds : obj[b2] <= obj[b]}

RECURSIVE OptimalOfferPrefixes(_, _, _)
OptimalOfferPrefixes(sch, scen, h) ==
    IF h = 0
    THEN {<<>>}
    ELSE {Append(v, b) : v \in OptimalOfferPrefixes(sch, scen, h - 1),
                         b \in OptimalOffers(sch, scen, h - 1)}

OptimalOfferVectors(sch, scen) ==
    {[t \in T |-> v[t + 1]] : v \in OptimalOfferPrefixes(sch, scen, horizon)}

\* The variable values of a solution: the offers, and delta_exc and delta_def
\* as the parts of wind - offer, raised together by k in cell c (c = <<0, 0>>:
\* in no cell).
Values(scen, offers, c, k) ==
    [offer_quantity |-> offers,
     delta_exc |-> [s \in 1 .. Len(scen) |-> [t \in T |->
                      Pos(scen[s].wind[t] - offers[t]) + (IF c = <<s, t>> THEN k ELSE 0)]],
     delta_def |-> [s \in 1 .. Len(scen) |-> [t \in T |->
                      Pos(offers[t] - scen[s].wind[t]) + (IF c = <<s, t>> THEN k ELSE 0)]]]

\* The cells and amounts by which a solution may raise delta_exc and
\* delta_def together and stay optimal: the summand keeps its largest value.
FreeSlack(sch, scen, offers) ==
    {<<(<<0, 0>>), 0>>} \cup
    {ck \in (((1 .. Len(scen)) \X T) \X (1 .. MaxSlack)) :
        LET sc == scen[ck[1][1]]
            t == ck[1][2]
        IN  RevenueTerm(sch, sc, t, offers[t],
                        Pos(sc.wind[t] - offers[t]) + ck[2],
                        Pos(offers[t] - sc.wind[t]) + ck[2])
                = CellMax(sch, sc, t, offers[t])}

OptimalSolutions(sch, scen) ==
    UNION {{Values(scen, o, ck[1], ck[2]) : ck \in FreeSlack(sch, scen, o)} :
              o \in OptimalOfferVectors(sch, scen)}

\* value(model.ExpectedRevenue): revenue(m) at the loaded values
ExpectedRevenue(sch, scen, vals) ==
    Rat(SumFn([t \in T |->
                 SumFn([s \in 1 .. Len(scen) |->
                          RevenueTerm(sch, scen[s], t, vals.offer_quantity[t],
                                      vals.delta_exc[s][t], vals.delta_def[s][t])],
                       1, Len(scen))],
              0, horizon - 1),
        20 * Len(scen))

Optimal == [status |-> "ok", termination_condition |-> "optimal"]

IsOptimal(res) == res.status = "ok" /\ res.termination_condition = "optimal"

\* What solver.solve(model) can come back with: the result's status and
\* termination condition, and the values it loaded into the model (None: it
\* loaded none).  The program is always feasible; it is unbounded or has an
\* optimum; and the external solver may give up at its time limit, with no
\* point loaded or with a feasible one (nothing offered, the capacity offered).
SolverOutcomes(sch, scen) ==
    (IF LPUnbounded(sch, scen, [t \in T |-> 0])
     THEN {[status |-> "warning", termination_condition |-> "unbounded", values |-> None]}
     ELSE {[status |-> "ok", termination_condition |-> "optimal", values |-> v] :
              v \in OptimalSolutions(sch, scen)})
    \cup
    {[status |-> "aborted", termination_condition |-> "maxTimeLimit", values |-> v] :
        v \in {None} \cup {Values(scen, [t \in T |-> b], <<0, 0>>, 0) : b \in {0, max_capacity}}}

\* ---------------------------------------------------------- solve_and_extract
\* The hourly revenue of the report loop.  Python parses
\*   a + b - c if flag == 1 else d - e
\* as (a + b - c) if flag == 1 else (d - e).
ReportRevenue(sch, p_da, bid, delta_up, delta_down, system_flag) ==
    IF sch = "one"
    THEN (IF system_flag = 1
          THEN 20 * p_da * bid + 17 * p_da * delta_up - 17 * p_da * delta_down
          ELSE 25 * p_da * delta_up - 25 * p_da * delta_down)
    ELSE (IF system_flag = 1
          THEN 20 * p_da * bid + 17 * p_da * delta_up - 20 * p_da * delta_down
          ELSE 20 * p_da * delta_up - 25 * p_da * delta_down)

\* data: one record per hour; bids are the offers the loop reads.
HourlyRecords(sch, scen, bids, vals) ==
    [t \in T |->
        [hour |-> t,
         bid_MW |-> bids[t],
         expected_revenue |->
            Rat(SumFn([s \in 1 .. Len(scen) |->
                         ReportRevenue(sch, scen[s].price_da[t], bids[t],
                                       vals.delta_exc[s][t], vals.delta_def[s][t],
                                       scen[s].system[t])],
                      1, Len(scen)),
                20 * Len(scen)),
         scheme |-> IF sch = "one" THEN "One-Price" ELSE "Two-Price"]]

Frame(rows) == [tag |-> "frame", rows |-> rows]
Strategy(offers, profit) ==
    [tag |-> "strategy", offer_quantities |-> offers, expected_profit |-> profit]

\* The call handing back an all-zero strategy after a failed solve instead of
\* raising.
SolveAndExtractDefaultOnFailure(sch, scen, return_only, out) ==
    IF IsOptimal(out)
    THEN IF return_only
         THEN Strategy(out.values.offer_quantity, ExpectedRevenue(sch, scen, out.values))
         ELSE Frame(HourlyRecords(sch, scen, out.values.offer_quantity, out.values))
    ELSE Strategy([t \in T |-> 0], Rat(0, 1))

\* Task1/Task_1.1_1.2_1.3.py: what the call returns or raises once the solver
\* came back with out.  A non-optimal result skips the extraction and falls
\* through to the report loop, whose first statement reads the unassigned
\* local offer_quantities.
SolveAndExtractT13(sch, scen, return_only, out) ==
    IF IsOptimal(out)
    THEN IF return_only
         THEN Strategy(out.values.offer_quantity, ExpectedRevenue(sch, scen, out.values))
         ELSE Frame(HourlyRecords(sch, scen, out.values.offer_quantity, out.values))
    ELSE Raised("UnboundLocalError")

\* Task_1.py: a non-optimal result prints "Optimization failed." and the
\* report loop reads value(model.offer_quantity[t]) all the same: a ValueError
\* when the solver loaded no value, a report of the loaded values otherwise.
SolveAndExtractT1(sch, scen, out) ==
    IF out.values = None
    THEN Raised("ValueError")
    ELSE Frame(HourlyRecords(sch, scen, out.values.offer_quantity, out.values))

SolveAndExtract(v, sch, scen, return_only, out) ==
    IF v = "T1"
    THEN SolveAndExtractT1(sch, scen, out)
    ELSE SolveAndExtractT13(sch, scen, return_only, out)

\* Whether the call reads value(model.<variable>) after a failed status check.
ReadsAfterFailure(v, out) == v = "T1" /\ ~IsOptimal(out)

StatusOf(out) ==
    [status |-> out.status, termination_condition |-> out.termination_condition]

\* A top-level call solve_and_extract(scheme, in_sample, solver).
SolveReport ==
    /\ pc = "start"
    /\ \E out \in SolverOutcomes(scheme, in_sample) :
        /\ result' = StatusOf(out)
        /\ solution' = out.values
        /\ ret' = SolveAndExtract(variant, scheme, in_sample, FALSE, out)
        /\ read_after_failure' = ReadsAfterFailure(variant, out)
    /\ pc' = "solved"
    /\ UNCHANGED <<cfgVars, in_sample, evalVars, cvVars>>

\* A call solve_and_extract(scheme, in_sample, solver, return_only=True).
SolveStrategy ==
    /\ pc = "start"
    /\ variant = "T13"
    /\ \E out \in SolverOutcomes(scheme, in_sample) :
        /\ result' = StatusOf(out)
        /\ solution' = out.values
        /\ ret' = SolveAndExtract(variant, scheme, in_sample, TRUE, out)
        /\ read_after_failure' = ReadsAfterFailure(variant, out)
    /\ pc' = "solved_strategy"
    /\ UNCHANGED <<cfgVars, in_sample, evalVars, cvVars>>

\* Lists of 1 to n scenarios of a pool.  The objective and the evaluator sum
\* over the scenarios of a list, so its order does not matter to them: the
\* lists are drawn in the order of the pool.
ScenarioLists(pool, n) ==
    {[j \in DOMAIN picks |-> pool[picks[j]]] :
        picks \in {g \in UNION {[1 .. k -> 1 .. Len(pool)] : k \in 1 .. n} :
                     \A j \in 1 .. (Len(g) - 1) : g[j] <= g[j + 1]}}

\* No cross-validation is under way, no scenario data is being combined.
CVIdle ==
    /\ price_data_da = <<>>
    /\ wind_data = <<>>
    /\ power_scenarios = <<>>
    /\ wind_capacity = 0
    /\ betas = <<>>
    /\ alpha = None
    /\ solver = None
    /\ all_scenarios = <<>>
    /\ shuffle_order = <<>>
    /\ in_sample_sizes = <<>>
    /\ size_index = 0
    /\ scenarios_copy = <<>>
    /\ folds = <<>>
    /\ fold_index = 0
    /\ out_sample = <<>>
    /\ in_sample_profits = <<>>
    /\ out_sample_profits = <<>>
    /\ results = <<>>
    /\ results_df = None
    /\ raised = None
    /\ solve_log = <<>>

\* The top-level calls on an in-sample list, for each file and scheme.
Init ==
    /\ horizon = NumHours
    /\ max_capacity = MaxCap
    /\ scheme \in Schemes
    /\ variant \in Variants
    /\ in_sample \in ScenarioLists(ScenarioPool, MaxEvalScen)
    /\ fixed_bid = None
    /\ eval_profit = None
    /\ lp_revenue = None
    /\ result = None
    /\ solution = None
    /\ ret = None
    /\ read_after_failure = FALSE
    /\ CVIdle
    /\ pc = "start"

Next == SolveReport \/ SolveStrategy

Spec == Init /\ [][Next]_vars

\* ------------------------------------------- run_cross_validation_for_sizes
Min(a, b) == IF a <= b THEN a ELSE b

\* scenarios_copy = all_scenarios[:]; random.seed(42); random.shuffle(...)
\* The seed fixes the order the shuffle gives a list of this length.
Shuffled(scenarios, order) ==
    [k \in 1 .. Len(scenarios) |-> scenarios[order[k]]]

\* No copy: the caller's list itself is shuffled, and scenarios_copy is
\* another name of it.
ShuffleCallersList(scenarios, order) ==
    [all_scenarios |-> Shuffled(scenarios, order),
     scenarios_copy |-> Shuffled(scenarios, order)]

\* The two lists after the copy and the shuffle: all_scenarios[:] is a new
\* list, and random.shuffle works in place on that one.
ShuffleCopy(scenarios, order) ==
    [all_scenarios |-> scenarios,
     scenarios_copy |-> Shuffled(scenarios, order)]

\* A slice that takes the element at hi as well.
SliceInclusive(seq, lo, hi) ==
    LET a == Min(lo, Len(seq))
        b == Min(hi + 1, Len(seq))
    IN  [k \in 1 .. (IF b > a THEN b - a ELSE 0) |-> seq[a + k]]

\* seq[lo:hi], a Python slice (0-based, hi excluded, both clipped)
Slice(seq, lo, hi) ==
    LET a == Min(lo, Len(seq))
        b == Min(hi, Len(seq))
    IN  [k \in 1 .. (IF b > a THEN b - a ELSE 0) |-> seq[a + k]]

\* [scenarios_copy[i*n : (i+1)*n] for i in range(num_folds)]
Folds(copy, n, num_folds) ==
    [i \in 1 .. num_folds |-> Slice(copy, (i - 1) * n, i * n)]

\* The comprehension without its filter j != i: every fold, the training
\* fold too.
RECURSIVE OutSampleAllFolds(_, _, _)
OutSampleAllFolds(fs, i, j) ==
    IF j > Len(fs)
    THEN <<>>
    ELSE fs[j] \o OutSampleAllFolds(fs, i, j + 1)

\* [s for j, fold in enumerate(folds) if j != i for s in fold], from fold j on
RECURSIVE OutSampleFrom(_, _, _)
OutSampleFrom(fs, i, j) ==
    IF j > Len(fs)
    THEN <<>>
    ELSE (IF j = i THEN <<>> ELSE fs[j]) \o OutSampleFrom(fs, i, j + 1)

OutSample(fs, i) == OutSampleFrom(fs, i, 1)

RECURSIVE RatSum(_, _)
RatSum(xs, k) == IF k = 0 THEN Rat(0, 1) ELSE RatAdd(RatSum(xs, k - 1), xs[k])

\* np.mean(profits): nan for an empty list
Mean(profits) ==
    IF Len(profits) = 0 THEN NaN ELSE RatDiv(RatSum(profits, Len(profits)), Len(profits))

\* avg_in - avg_out in float arithmetic
Gap(avg_in, avg_out) ==
    IF avg_in = NaN \/ avg_out = NaN THEN NaN ELSE RatSub(avg_in, avg_out)

SummaryRecord(n, ins, outs) ==
    [in_sample_size |-> n,
     avg_in_sample_profit |-> Mean(ins),
     avg_out_sample_profit |-> Mean(outs),
     generalization_gap |-> Gap(Mean(ins), Mean(outs))]

\* results = []
CVCall ==
    /\ pc = "start"
    /\ Len(in_sample_sizes) > 0
    /\ results' = <<>>
    /\ size_index' = 0
    /\ pc' = "size_loop"
    /\ UNCHANGED <<cfgVars, in_sample, evalVars, solveVars, cvInputs, cvOut,
                   scenarios_copy, folds, fold_index, out_sample,
                   in_sample_profits, out_sample_profits>>

\* The head of the outer loop's body: the folds of the next requested size.
BeginSize ==
    /\ pc = "size_loop"
    /\ size_index < Len(in_sample_sizes)
    /\ LET in_sample_size == in_sample_sizes[size_index + 1]
           num_folds == Len(all_scenarios) \div in_sample_size
           lists == ShuffleCopy(all_scenarios, shuffle_order)
       IN  /\ all_scenarios' = lists.all_scenarios
           /\ scenarios_copy' = lists.scenarios_copy
           /\ folds' = Folds(lists.scenarios_copy, in_sample_size, num_folds)
    /\ in_sample_profits' = <<>>
    /\ out_sample_profits' = <<>>
    /\ fold_index' = 0
    /\ pc' = "fold_loop"
    /\ UNCHANGED <<cfgVars, in_sample, evalVars, solveVars, shuffle_order,
                   in_sample_sizes, cvOut, size_index, out_sample, results>>

\* One iteration of the fold loop: train on fold i, score on the others.  An
\* exception of solve_and_extract or of evaluate_profit leaves the call.
RunFold ==
    /\ pc = "fold_loop"
    /\ fold_index < Len(folds)
    /\ LET ins == folds[fold_index + 1]
           outs == OutSample(folds, fold_index + 1)
       IN  /\ in_sample' = ins
           /\ out_sample' = outs
           /\ \E out \in SolverOutcomes(scheme, ins) :
                LET r == SolveAndExtract(variant, scheme, ins, TRUE, out)
                    out_profit == evaluate_profit(r.offer_quantities, outs, scheme)
                IN  /\ result' = StatusOf(out)
                    /\ ret' = r
                    /\ read_after_failure' = ReadsAfterFailure(variant, out)
                    /\ solve_log' = Append(solve_log,
                                           [size_index |-> size_index,
                                            size |-> in_sample_sizes[size_index + 1],
                                            fold |-> fold_index,
                                            status |-> StatusOf(out)])
                    /\ IF r.tag = "raise"
                       THEN /\ raised' = r
                            /\ pc' = "raised"
                            /\ UNCHANGED <<eval_profit, in_sample_profits,
                                           out_sample_profits, fold_index>>
                       ELSE /\ eval_profit' = out_profit
                            /\ IF out_profit.tag = "raise"
                               THEN /\ raised' = out_profit
                                    /\ pc' = "raised"
                                    /\ UNCHANGED <<in_sample_profits,
                                                   out_sample_profits, fold_index>>
                               ELSE /\ in_sample_profits' =
                                           Append(in_sample_profits, r.expected_profit)
                                    /\ out_sample_profits' =
                                           Append(out_sample_profits, out_profit)
                                    /\ fold_index' = fold_index + 1
                                    /\ pc' = "fold_loop"
                                    /\ UNCHANGED raised
    \* the model is local to solve_and_extract and gone when it returns
    /\ solution' = None
    /\ UNCHANGED <<cfgVars, lp_revenue, cvInputs, size_index, scenarios_copy,
                   folds, results, results_df>>

\* The tail of the outer loop's body: the means, the gap, the record.
EndSize ==
    /\ pc = "fold_loop"
    /\ fold_index = Len(folds)
    /\ results' = Append(results,
                         SummaryRecord(in_sample_sizes[size_index + 1],
                                       in_sample_profits, out_sample_profits))
    /\ size_index' = size_index + 1
    /\ pc' = "size_loop"
    /\ UNCHANGED <<cfgVars, in_sample, evalVars, solveVars, cvInputs, cvOut,
                   scenarios_copy, folds, fold_index, out_sample,
                   in_sample_profits, out_sample_profits>>

\* return pd.DataFrame(results)
CVReturn ==
    /\ pc = "size_loop"
    /\ size_index = Len(in_sample_sizes)
    /\ results_df' = Frame(results)
    /\ pc' = "returned"
    /\ UNCHANGED <<cfgVars, in_sample, evalVars, solveVars, cvInputs, cvLocals,
                   raised, solve_log>>

\* A population scenario: day-ahead price 2, or -1 when neg; the system flag
\* alternates from phase; the wind is the capacity in the hours of flag 1 and
\* 0 in the others.  id is the scenario's place in the population.
PopulationScenario(i, neg, phase) ==
    [id |-> i,
     wind |-> [t \in T |-> max_capacity * ((phase + t) % 2)],
     price_da |-> [t \in T |-> IF neg THEN 0 - 1 ELSE 2],
     system |-> Trajectory(phase, 1, 2)]

\* Populations of n scenarios of which none, or the last, has a negative
\* price; the shuffle moves it to any place.
Populations(n) ==
    {[i \in 1 .. n |-> PopulationScenario(i, i = bad, i % 2)] : bad \in {0, n}}

ShuffleOrders(n) ==
    {f \in [1 .. n -> 1 .. n] : \A i, j \in 1 .. n : f[i] = f[j] => i = j}

InitCV ==
    /\ horizon = NumHours
    /\ max_capacity = MaxCap
    /\ scheme \in Schemes
    /\ variant = "T13"
    /\ in_sample = <<>>
    /\ fixed_bid = None
    /\ eval_profit = None
    /\ lp_revenue = None
    /\ result = None
    /\ solution = None
    /\ ret = None
    /\ read_after_failure = FALSE
    /\ price_data_da = <<>>
    /\ wind_data = <<>>
    /\ power_scenarios = <<>>
    /\ wind_capacity = 0
    /\ betas = <<>>
    /\ alpha = None
    /\ solver = None
    /\ \E n \in 1 .. PopSize :
        /\ all_scenarios \in Populations(n)
        /\ shuffle_order \in ShuffleOrders(n)
        /\ in_sample_sizes \in UNION {[1 .. k -> 1 .. (n + 1)] : k \in 1 .. MaxSizes}
    /\ size_index = 0
    /\ scenarios_copy = <<>>
    /\ folds = <<>>
    /\ fold_index = 0
    /\ out_sample = <<>>
    /\ in_sample_profits = <<>>
    /\ out_sample_profits = <<>>
    /\ results = <<>>
    /\ results_df = None
    /\ raised = None
    /\ solve_log = <<>>
    /\ pc = "start"

NextCV == CVCall \/ BeginSize \/ RunFold \/ EndSize \/ CVReturn

SpecCV == InitCV /\ [][NextCV]_vars

\* The concrete population of four scenarios: wind 100 and day-ahead price 50
\* in each of the 24 hours, system flag 1, 0, 1, 0, ..., capacity 100.
ConcreteScenario ==
    [wind |-> [t \in 0 .. (Horizon24 - 1) |-> 100],
     price_da |-> [t \in 0 .. (Horizon24 - 1) |-> 50],
     system |-> [t \in 0 .. (Horizon24 - 1) |-> (t + 1) % 2]]

InitConcrete ==
    /\ horizon = Horizon24
    /\ max_capacity = 100
    /\ scheme = "one"
    /\ variant = "T13"
    /\ in_sample = [s \in 1 .. 4 |-> ConcreteScenario]
    /\ fixed_bid = None
    /\ eval_profit = None
    /\ lp_revenue = None
    /\ result = None
    /\ solution = None
    /\ ret = None
    /\ read_after_failure = FALSE
    /\ CVIdle
    /\ pc = "start"

NextConcrete == SolveStrategy \/ SolveReport

SpecConcrete == InitConcrete /\ [][NextConcrete]_vars

\* ------------------------------------------- the evaluator against the LP
InitEval ==
    /\ horizon = NumHours
    /\ max_capacity = MaxCap
    /\ scheme \in Schemes
    /\ variant = "T13"
    /\ in_sample \in ScenarioLists(ScenarioPool, MaxEvalScen)
    /\ fixed_bid \in BidTrajectories
    /\ eval_profit = None
    /\ lp_revenue = None
    /\ result = None
    /\ solution = None
    /\ ret = None
    /\ read_after_failure = FALSE
    /\ CVIdle
    /\ pc = "start"

\* Score the fixed bid with evaluate_profit, and with the LP objective.
EvaluateFixedBid ==
    /\ pc = "start"
    /\ eval_profit' = evaluate_profit(fixed_bid, in_sample, scheme)
    /\ lp_revenue' = LPRevenueAtBid(scheme, in_sample, fixed_bid)
    /\ pc' = "evaluated"
    /\ UNCHANGED <<cfgVars, in_sample, solveVars, cvVars>>

NextEval == EvaluateFixedBid

SpecEval == InitEval /\ [][NextEval]_vars

\* ------------------------------------------------------ create_model_template
\* The files that define a create_model_template: the two of Variants and
\* Task_1_4.py (T14), whose template takes the scheme as well.
TemplateVariants == Variants \cup {"T14"}

\* model.S = Set(initialize=range(len(in_sample)))
ScenarioIndex(scen) == 0 .. (Len(scen) - 1)

\* The model the template returns: its sets, the index set of each variable
\* and of each constraint.  Task_1_4.py adds VaR, auxiliary and Auxiliary.
\* No statement of the template looks at len(in_sample) but range().
create_model_template(v, scen) ==
    LET S == ScenarioIndex(scen)
        cells == S \X T
    IN  [tag |-> "model",
         T |-> T,
         S |-> S,
         variables |-> [offer_quantity |-> T,
                        delta |-> cells,
                        delta_exc |-> cells,
                        delta_def |-> cells,
                        VaR |-> IF v = "T14" THEN {0} ELSE {},
                        auxiliary |-> IF v = "T14" THEN S ELSE {}],
         constraints |-> [ImbalanceDef |-> cells,
                          DeltaDecomp |-> cells,
                          Auxiliary |-> IF v = "T14" THEN cells ELSE {}]]

\* A call create_model_template(in_sample) / (scheme, in_sample).
BuildModel ==
    /\ pc = "start"
    /\ ret' = create_model_template(variant, in_sample)
    /\ pc' = "built"
    /\ UNCHANGED <<cfgVars, in_sample, evalVars, result, solution,
                   read_after_failure, cvVars>>

InitBuild ==
    /\ horizon = NumHours
    /\ max_capacity = MaxCap
    /\ scheme \in Schemes
    /\ variant \in TemplateVariants
    /\ in_sample \in {<<>>} \cup ScenarioLists(ScenarioPool, MaxEvalScen)
    /\ fixed_bid = None
    /\ eval_profit = None
    /\ lp_revenue = None
    /\ result = None
    /\ solution = None
    /\ ret = None
    /\ read_after_failure = FALSE
    /\ CVIdle
    /\ pc = "start"

NextBuild == BuildModel

SpecBuild == InitBuild /\ [][NextBuild]_vars

\* -------------------------------------------------- create_combined_scenarios
\* A series: a Python list of hourly values, indexed from 0.
Series(len, value) == [t \in 0 .. (len - 1) |-> value]

SeriesLen(x) == Cardinality(DOMAIN x)

\* Series of the horizon's length, an hour short and an hour long.
SeriesLengths == {horizon - 1, horizon, horizon + 1}

\* Price and wind columns as read_data hands them over: whatever length the
\* sheet has.  Wind values are fractions of the capacity (0 or 1 here).
PriceSeries == {Series(len, 2) : len \in SeriesLengths} \cup {Series(horizon, 0)}
WindSeries == {Series(len, 1) : len \in SeriesLengths} \cup {Series(horizon, 0)}
\* generate_power_scenarios: rows of one 0/1 flag per hour.
PowerSeries == {[t \in T |-> (a + t) % 2] : a \in {0, 1}}

\* Lists of 0 to n series.
SeriesLists(pool, n) == UNION {[1 .. k -> pool] : k \in 0 .. n}

List(items) == [tag |-> "list", items |-> items]

\* The scenario dict with the wind fractions left unscaled.
CombinedScenarioUnscaled(price_da, wind, power, capacity) ==
    [wind |-> wind,
     price_da |-> price_da,
     price_bal |-> [t \in T |-> IF power[t] = 1 THEN 17 * price_da[t] ELSE 25 * price_da[t]],
     system |-> power]

\* One scenario dict of the innermost loop body.  price_bal is in twentieths
\* of the price unit (0.85 = 17/20, 1.25 = 25/20).
CombinedScenario(price_da, wind, power, capacity) ==
    [wind |-> [t \in DOMAIN wind |-> wind[t] * capacity],
     price_da |-> price_da,
     price_bal |-> [t \in T |-> IF power[t] = 1 THEN 17 * price_da[t] ELSE 25 * price_da[t]],
     system |-> power]

\* create_combined_scenarios: prices outermost, system states innermost.  The
\* body reads price_da[t] and power_list[t] for t in range(24): an IndexError
\* when one of them is shorter, once the body runs at all.
create_combined_scenarios(prices, winds, powers, capacity) ==
    LET P == Len(prices)
        W == Len(winds)
        K == Len(powers)
    IN  IF /\ P > 0 /\ W > 0 /\ K > 0
           /\ \/ \E i \in 1 .. P : SeriesLen(prices[i]) < horizon
              \/ \E k \in 1 .. K : SeriesLen(powers[k]) < horizon
        THEN Raised("IndexError")
        ELSE List([c \in 1 .. (P * W * K) |->
                     CombinedScenario(prices[((c - 1) \div (W * K)) + 1],
                                      winds[(((c - 1) \div K) % W) + 1],
                                      powers[((c - 1) % K) + 1],
                                      capacity)])

\* all_scenarios = create_combined_scenarios(price_data, wind_data, power_scenarios)
CombineScenarios ==
    /\ pc = "start"
    /\ ret' = create_combined_scenarios(price_data_da, wind_data, power_scenarios,
                                        wind_capacity)
    /\ pc' = "combined"
    /\ UNCHANGED <<cfgVars, in_sample, evalVars, result, solution,
                   read_after_failure, cvVars>>

InitCombine ==
    /\ horizon = NumHours
    /\ max_capacity = MaxCap
    /\ scheme = "one"
    /\ variant = "T13"
    /\ in_sample = <<>>
    /\ fixed_bid = None
    /\ price_data_da \in SeriesLists(PriceSeries, MaxSeries)
    /\ wind_data \in SeriesLists(WindSeries, MaxSeries)
    /\ power_scenarios \in SeriesLists(PowerSeries, MaxSeries)
    /\ wind_capacity = MaxCap
    /\ betas = <<>>
    /\ alpha = None
    /\ solver = None
    /\ eval_profit = None
    /\ lp_revenue = None
    /\ result = None
    /\ solution = None
    /\ ret = None
    /\ read_after_failure = FALSE
    /\ all_scenarios = <<>>
    /\ shuffle_order = <<>>
    /\ in_sample_sizes = <<>>
    /\ size_index = 0
    /\ scenarios_copy = <<>>
    /\ folds = <<>>
    /\ fold_index = 0
    /\ out_sample = <<>>
    /\ in_sample_profits = <<>>
    /\ out_sample_profits = <<>>
    /\ results = <<>>
    /\ results_df = None
    /\ raised = None
    /\ solve_log = <<>>
    /\ pc = "start"

NextCombine == CombineScenarios

SpecCombine == InitCombine /\ [][NextCombine]_vars

\* ------------------------------------------- Task_1_4.py: the risk-adjusted solve
\* CVaR levels: the default 0.90, and 0.50.
Alphas == {Rat(9, 10), Rat(1, 2)}

\* profit_s of the scenario-wise loop, and the sum inside auxiliary_rule, at
\* the values of a solution: in twentieths.
ProfitsPerScenario(sch, scen, vals) ==
    [s \in 1 .. Len(scen) |->
        SumFn([t \in T |-> RevenueTerm(sch, scen[s], t, vals.offer_quantity[t],
                                        vals.delta_exc[s][t], vals.delta_def[s][t])],
              0, horizon - 1)]

\* The per-scenario profits of an offer vector with delta_exc and delta_def
\* the positive and the negative part of wind - offer.
ProfitsAtOffers(sch, scen, offers) ==
    ProfitsPerScenario(sch, scen, Values(scen, offers, <<0, 0>>, 0))

\* VaR - 1 / (1 - alpha) * sum((1 / len(in_sample)) * auxiliary[s]) with each
\* auxiliary[s] the least value its domain (NonNegativeReals) and the
\* constraint auxiliary[s] >= VaR - profit_s allow.  In twentieths.
CVaRExpression(profits, var, a) ==
    LET N == Len(profits)
        shortfall == SumFn([s \in 1 .. N |-> Pos(var - profits[s])], 1, N)
    IN  RatSub(Rat(var, 1), Rat(a.d * shortfall, (a.d - a.n) * N))

\* model.VaR = Var(domain=NonNegativeReals).  The expression is concave and
\* piecewise linear in VaR and falls beyond the largest profit, so over
\* VaR >= 0 its maximum is at 0 or at a profit that is positive.
VaRCandidates(profits) ==
    {0} \cup {profits[s] : s \in {x \in 1 .. Len(profits) : profits[x] > 0}}

\* The largest value of the expression over VaR and auxiliary.
CVaRMax(profits, a) ==
    LET vals == {CVaRExpression(profits, v, a) : v \in VaRCandidates(profits)}
    IN  CHOOSE x \in vals : \A y \in vals : RatLeq(y, x)

\* The objective with the CVaR expression weighed 1 whatever beta is.
RiskObjectiveAlwaysRisk(sch, scen, offers, b, a) ==
    LET profits == ProfitsAtOffers(sch, scen, offers)
        N == Len(scen)
        expected == Rat(SumFn(profits, 1, N), N)
    IN  RatAdd(RatMul(RatSub(Rat(1, 1), b), expected), CVaRMax(profits, a))

\* revenue(m) of Task_1_4.py maximised over all but the offers:
\* (1 - beta) * expected profit + beta * (VaR - 1/(1-alpha) * mean auxiliary).
RiskObjective(sch, scen, offers, b, a) ==
    LET profits == ProfitsAtOffers(sch, scen, offers)
        N == Len(scen)
        expected == Rat(SumFn(profits, 1, N), N)
    IN  RatAdd(RatMul(RatSub(Rat(1, 1), b), expected), RatMul(b, CVaRMax(profits, a)))

\* The offer vectors within the bounds, in whole MW.
OfferVectors == [T -> OfferBounds]

\* Every offer vector with the value of the objective at it.
RiskObjectives(sch, scen, b, a) ==
    {<<o, RiskObjective(sch, scen, o, b, a)>> : o \in OfferVectors}

\* The largest of the values of a set of <<offers, value>> pairs.
BestOf(pairs) ==
    LET vals == {q[2] : q \in pairs}
    IN  CHOOSE x \in vals : \A y \in vals : RatLeq(y, x)

\* value(model.ExpectedRevenue) of Task_1_4.py at an optimum.
OptimalRiskObjective(sch, scen, b, a) == BestOf(RiskObjectives(sch, scen, b, a))

OptimalRiskOffers(sch, scen, b, a) ==
    LET pairs == RiskObjectives(sch, scen, b, a)
        best == BestOf(pairs)
    IN  {q[1] : q \in {x \in pairs : x[2] = best}}

\* The values of VaR an optimal solution can hold: a maximiser when the
\* objective weighs the CVaR expression; any value when beta = 0, of which
\* the model takes 0 and the largest profit.
OptimalVaRs(profits, b, a) ==
    IF b.n = 0
    THEN {0} \cup {v \in VaRCandidates(profits) : \A s \in 1 .. Len(profits) : profits[s] <= v}
    ELSE {v \in VaRCandidates(profits) : CVaRExpression(profits, v, a) = CVaRMax(profits, a)}

\* What solver.solve(model) can come back with in Task_1_4.py: an optimal
\* solution (offers, the parts of wind - offer, VaR, the least auxiliary), or
\* the solver giving up with nothing loaded.
RiskSolverOutcomes(sch, scen, b, a) ==
    UNION {{[status |-> "ok", termination_condition |-> "optimal",
             values |-> [offer_quantity |-> o,
                         delta_exc |-> Values(scen, o, <<0, 0>>, 0).delta_exc,
                         delta_def |-> Values(scen, o, <<0, 0>>, 0).delta_def,
                         VaR |-> v,
                         auxiliary |-> [s \in 1 .. Len(scen) |->
                                          Pos(v - ProfitsAtOffers(sch, scen, o)[s])]]] :
               v \in OptimalVaRs(ProfitsAtOffers(sch, scen, o), b, a)} :
              o \in OptimalRiskOffers(sch, scen, b, a)}
    \cup
    {[status |-> "aborted", termination_condition |-> "maxTimeLimit", values |-> None]}

\* return pd.DataFrame(data), expected_revenue, cvar, profits_per_scenario
RiskReturn(frame, expected_revenue, cvar, profits_per_scenario) ==
    [tag |-> "risk", data |-> frame, expected_revenue |-> expected_revenue,
     cvar |-> cvar, profits_per_scenario |-> profits_per_scenario]

\* Task_1_4.py solve_and_extract (return_only left False, as the script
\* calls it) once the solver came back with out.  A non-optimal result falls
\* through to the report loop as in Task 1.3.
SolveAndExtractT14(sch, b, scen, out, a) ==
    IF IsOptimal(out)
    THEN LET vals == out.values
             N == Len(scen)
         IN  RiskReturn(
                Frame(HourlyRecords(sch, scen, vals.offer_quantity, vals)),
                ExpectedRevenue(sch, scen, vals),
                RatSub(Rat(vals.VaR, 20),
                       Rat(a.d * SumFn(vals.auxiliary, 1, N), 20 * (a.d - a.n) * N)),
                ProfitsPerScenario(sch, scen, vals))
    ELSE Raised("UnboundLocalError")

\* One call of the script's loop over betas: solve_and_extract(scheme, beta,
\* sample, solver) for the next beta.
SolveRisk ==
    /\ pc \in {"start", "risk_solved"}
    /\ Len(solve_log) < Len(betas)
    /\ LET b == betas[Len(solve_log) + 1]
       IN  \E out \in RiskSolverOutcomes(scheme, in_sample, b, alpha) :
              /\ result' = StatusOf(out)
              /\ solution' = out.values
              /\ ret' = SolveAndExtractT14(scheme, b, in_sample, out, alpha)
              /\ solve_log' = Append(solve_log,
                                     [beta |-> b, status |-> StatusOf(out), ret |-> ret'])
              /\ pc' = IF IsOptimal(out) THEN "risk_solved" ELSE "raised"
              /\ raised' = IF IsOptimal(out) THEN raised ELSE ret'
    /\ UNCHANGED <<cfgVars, in_sample, evalVars, read_after_failure, cvInputs,
                   cvLocals, results_df>>

\* The LP with the offers fixed and beta = 1: the largest value of the CVaR
\* expression at the fixed bid.
MaximiseCVaRAtBid ==
    /\ pc = "start"
    /\ fixed_bid # None
    /\ lp_revenue' = CVaRMax(ProfitsAtOffers(scheme, in_sample, fixed_bid), alpha)
    /\ pc' = "risk_evaluated"
    /\ UNCHANGED <<cfgVars, in_sample, eval_profit, solveVars, cvVars>>

\* The script's betas = [0.5], and the two ends of the scale.
BetaLists == {<<Rat(1, 2)>>, <<Rat(0, 1), Rat(1, 1)>>}

\* The scenarios the risk-adjusted solves draw from: negative prices with no
\* wind (either flag phase) and with a little wind, positive prices with
\* a little wind and with wind above the capacity, a zeroed first hour.
RiskPool == [k \in 1 .. 6 |-> ScenarioPool[<<1, 2, 4, 10, 11, 15>>[k]]]

\* The script's calls on a sample, which leave alpha at its default 0.90;
\* with a fixed bid, the CVaR of that bid at either level.
\* The two-price program is unbounded with a negative price: no strategy.
InitRisk ==
    /\ horizon = NumHours
    /\ max_capacity = MaxCap
    /\ scheme \in Schemes
    /\ variant = "T14"
    /\ in_sample \in ScenarioLists(RiskPool, MaxRiskScen)
    /\ scheme = "two" => \A s \in 1 .. Len(in_sample), t \in T : in_sample[s].price_da[t] >= 0
    /\ \/ fixed_bid = None /\ betas \in BetaLists /\ alpha = Rat(9, 10)
       \/ fixed_bid \in BidTrajectories /\ betas = <<>> /\ alpha \in Alphas
    /\ solver = None
    /\ price_data_da = <<>>
    /\ wind_data = <<>>
    /\ power_scenarios = <<>>
    /\ wind_capacity = 0
    /\ eval_profit = None
    /\ lp_revenue = None
    /\ result = None
    /\ solution = None
    /\ ret = None
    /\ read_after_failure = FALSE
    /\ all_scenarios = <<>>
    /\ shuffle_order = <<>>
    /\ in_sample_sizes = <<>>
    /\ size_index = 0
    /\ scenarios_copy = <<>>
    /\ folds = <<>>
    /\ fold_index = 0
    /\ out_sample = <<>>
    /\ in_sample_profits = <<>>
    /\ out_sample_profits = <<>>
    /\ results = <<>>
    /\ results_df = None
    /\ raised = None
    /\ solve_log = <<>>
    /\ pc = "start"

NextRisk == SolveRisk \/ MaximiseCVaRAtBid

SpecRisk == InitRisk /\ [][NextRisk]_vars

\* --------------------------------------------- the fold loop in any order
\* solve_and_extract makes its own solver, SolverFactory('gurobi'), on every
\* call: what it hands back is settled by the model it is given.  Where
\* several offers are optimal in an hour it is the lowest or the highest.
SolverPolicies == {"lowest", "highest"}

\* The model of an earlier call kept and extended with the scenarios of this
\* call.
ModelScenariosKeptAcrossCalls(earlier, scen) == earlier \o scen

\* model = create_model_template(in_sample): a new ConcreteModel on every
\* call, built on the scenarios of the argument alone, whatever model the
\* call before it built.
ModelScenarios(earlier, scen) == scen

\* solver.solve(model) of a solver that breaks ties by policy.
SolveByPolicy(policy, sch, scen) ==
    IF LPUnbounded(sch, scen, [t \in T |-> 0])
    THEN [status |-> "warning", termination_condition |-> "unbounded", values |-> None]
    ELSE LET pick(t) ==
                 LET best == OptimalOffers(sch, scen, t)
                 IN  IF policy = "lowest"
                     THEN CHOOSE b \in best : \A b2 \in best : b <= b2
                     ELSE CHOOSE b \in best : \A b2 \in best : b2 <= b
         IN  [status |-> "ok", termination_condition |-> "optimal",
              values |-> Values(scen, [t \in T |-> pick(t)], <<0, 0>>, 0)]

\* The body of the fold loop for fold i: train on the fold, score on the
\* others.  earlier: the scenarios of the model of the call before.
FoldRun(policy, sch, fs, i, earlier) ==
    LET ins == ModelScenarios(earlier, fs[i])
        outs == OutSample(fs, i)
        out == SolveByPolicy(policy, sch, ins)
        r == SolveAndExtract("T13", sch, ins, TRUE, out)
        out_profit == IF r.tag = "raise"
                      THEN None
                      ELSE evaluate_profit(r.offer_quantities, outs, sch)
    IN  [model_scenarios |-> ins,
         out_sample |-> outs,
         status |-> StatusOf(out),
         ret |-> r,
         out_profit |-> out_profit,
         pair |-> IF r.tag = "raise"
                  THEN r
                  ELSE IF out_profit.tag = "raise"
                       THEN out_profit
                       ELSE [tag |-> "pair", in_profit |-> r.expected_profit,
                             out_profit |-> out_profit]]

\* The folds of the current size the loop has run.
FoldsDone ==
    {solve_log[k].fold : k \in {x \in 1 .. Len(solve_log) :
                                   solve_log[x].size_index = size_index}}

\* One iteration of the fold loop taken for any fold not yet run, each call
\* with its own model and solver.
RunFoldInAnyOrder ==
    /\ pc = "fold_loop"
    /\ fold_index < Len(folds)
    /\ \E i \in (1 .. Len(folds)) \ FoldsDone :
         LET run == FoldRun(solver, scheme, folds, i, in_sample)
         IN  /\ in_sample' = run.model_scenarios
             /\ out_sample' = run.out_sample
             /\ result' = run.status
             /\ ret' = run.ret
             /\ read_after_failure' = FALSE
             /\ solve_log' = Append(solve_log,
                                    [size_index |-> size_index, fold |-> i,
                                     pair |-> run.pair])
             /\ IF run.pair.tag = "raise"
                THEN /\ raised' = run.pair
                     /\ pc' = "raised"
                     /\ eval_profit' = run.out_profit
                     /\ UNCHANGED <<in_sample_profits, out_sample_profits, fold_index>>
                ELSE /\ eval_profit' = run.out_profit
                     /\ in_sample_profits' = Append(in_sample_profits, run.pair.in_profit)
                     /\ out_sample_profits' = Append(out_sample_profits, run.pair.out_profit)
                     /\ fold_index' = fold_index + 1
                     /\ pc' = "fold_loop"
                     /\ UNCHANGED raised
    /\ solution' = None
    /\ UNCHANGED <<cfgVars, lp_revenue, cvInputs, size_index, scenarios_copy,
                   folds, results, results_df>>

\* Populations of n scenarios of which the last has, as in
\* price_data_zeroed.xlsx, a day-ahead price of 0 in the first hour: every
\* offer of that hour is optimal for a fold made of it.
ZeroedPopulations(n) ==
    {[i \in 1 .. n |->
        IF i = n
        THEN [PopulationScenario(i, FALSE, i % 2) EXCEPT
                 !.price_da = [t \in T |-> IF t = 0 THEN 0 ELSE 2]]
        ELSE PopulationScenario(i, FALSE, i % 2)]}

\* The orders of the seeded shuffle taken here: the rotations of the list.
Rotations(n) ==
    {[k \in 1 .. n |-> ((k + r - 1) % n) + 1] : r \in 0 .. (n - 1)}

\* A call of run_cross_validation_for_sizes for one fold size, with a solver
\* of either policy.
InitAnyOrder ==
    /\ horizon = NumHours
    /\ max_capacity = MaxCap
    /\ scheme \in Schemes
    /\ variant = "T13"
    /\ in_sample = <<>>
    /\ fixed_bid = None
    /\ eval_profit = None
    /\ lp_revenue = None
    /\ result = None
    /\ solution = None
    /\ ret = None
    /\ read_after_failure = FALSE
    /\ price_data_da = <<>>
    /\ wind_data = <<>>
    /\ power_scenarios = <<>>
    /\ wind_capacity = 0
    /\ betas = <<>>
    /\ alpha = None
    /\ solver \in SolverPolicies
    /\ \E n \in 1 .. PopSize :
        /\ all_scenarios \in Populations(n) \cup ZeroedPopulations(n)
        /\ shuffle_order \in Rotations(n)
        /\ in_sample_sizes \in [1 .. 1 -> 1 .. (n + 1)]
    /\ size_index = 0
    /\ scenarios_copy = <<>>
    /\ folds = <<>>
    /\ fold_index = 0
    /\ out_sample = <<>>
    /\ in_sample_profits = <<>>
    /\ out_sample_profits = <<>>
    /\ results = <<>>
    /\ results_df = None
    /\ raised = None
    /\ solve_log = <<>>
    /\ pc = "start"

NextAnyOrder == CVCall \/ BeginSize \/ RunFoldInAnyOrder \/ EndSize \/ CVReturn

SpecAnyOrder == InitAnyOrder /\ [][NextAnyOrder]_vars

\* ------------------------------------------------------------------ claims
NonNegativePrices(scen) ==
    \A s \in 1 .. Len(scen), t \in T : scen[s].price_da[t] >= 0

SolvedOptimal == pc \in {"solved", "solved_strategy"} /\ IsOptimal(result)

\* The bid vector the call handed back: the strategy's, or the report's.
ReturnedBids ==
    IF ret.tag = "strategy"
    THEN ret.offer_quantities
    ELSE [t \in DOMAIN ret.rows |-> ret.rows[t].bid_MW]

\* C2 as stated: on the concrete population (wind 100, price 50, flag
\* 1, 0, 1, 0, ..., capacity 100) the optimal one-price bid is 100 in every
\* hour and the optimal expected revenue is 120000.
C2_BidsFullCapacity ==
    (pc = "solved_strategy" /\ IsOptimal(result))
        => /\ \A t \in T : ret.offer_quantities[t] = 100
           /\ ret.expected_profit = Rat(120000, 1)

\* C2 amended: the optimal one-price bid is 100 in the hours whose system
\* flag is 1 and 0 in the hours whose flag is 0, and the optimal expected
\* revenue is 12 * 5000 + 12 * 6250 = 135000.
C2_BidsFollowSystemFlag ==
    SolvedOptimal
        => /\ \A t \in T : ReturnedBids[t] = (IF in_sample[1].system[t] = 1 THEN 100 ELSE 0)
           /\ ret.tag = "strategy" => ret.expected_profit = Rat(135000, 1)

\* The concrete population was solved to optimality over its 24 hours.
C2_Witness ==
    /\ pc = "solved_strategy"
    /\ IsOptimal(result)
    /\ horizon = 24
    /\ Len(in_sample) = 4
    /\ ret.tag = "strategy"
    /\ ret.offer_quantities[0] = 100

\* C3 as stated: in every variant, a result other than ok/optimal ends the
\* call in a failure that carries the solver's status, and no variable of the
\* model is read after the status check.
C3_FailureCarriesStatus ==
    (pc \in {"solved", "solved_strategy"} /\ ~IsOptimal(result))
        => /\ ret.tag = "raise"
           /\ ret.carries = result
           /\ ~read_after_failure

\* C4: on optimal termination the returned bid vector has one entry per hour
\* of the horizon and every entry lies in [0, max_capacity].
C4_BidsWithinCapacity ==
    SolvedOptimal
        => /\ DOMAIN ReturnedBids = 0 .. (horizon - 1)
           /\ \A t \in T : 0 <= ReturnedBids[t] /\ ReturnedBids[t] <= max_capacity

\* An optimal solve that bids the full capacity in one hour and nothing in
\* another.
C4_Witness ==
    /\ SolvedOptimal
    /\ \E t \in T : ReturnedBids[t] = max_capacity
    /\ \E t \in T : ReturnedBids[t] = 0

Ids(seq) == {seq[k].id : k \in 1 .. Len(seq)}

\* The folds of the size the outer loop is at are built.
InFoldLoop == pc \in {"fold_loop", "raised"}

CurrentSize == in_sample_sizes[size_index + 1]

\* C5: for a fold size n with 1 <= n <= |population| there are exactly
\* floor(|population| / n) folds of exactly n scenarios each, no place of the
\* shuffled population is in two folds (or twice in one), and the remainder
\* places are in no fold.
C5_FoldsPartition ==
    (InFoldLoop /\ CurrentSize <= Len(all_scenarios))
        => LET n == CurrentSize
               k == Len(all_scenarios) \div n
           IN  /\ Len(folds) = k
               /\ \A i \in 1 .. Len(folds) : Len(folds[i]) = n
               /\ \A i, j \in 1 .. Len(folds) :
                     \A a \in 1 .. Len(folds[i]), b \in 1 .. Len(folds[j]) :
                        folds[i][a].id = folds[j][b].id => (i = j /\ a = b)
               /\ \A q \in (k * n + 1) .. Len(scenarios_copy) :
                     \A i \in 1 .. Len(folds) : scenarios_copy[q].id \notin Ids(folds[i])
               /\ \A i \in 1 .. Len(folds) : \A a \in 1 .. Len(folds[i]) :
                     folds[i][a] = scenarios_copy[(i - 1) * n + a]

\* Three folds of one scenario each, cut from a population the shuffle
\* reordered.
C5_Witness ==
    /\ pc = "fold_loop"
    /\ Len(folds) = 3
    /\ scenarios_copy # all_scenarios

\* What the last iteration of the fold loop ran on, when it belongs to the
\* folds now built.
LastRun == solve_log[Len(solve_log)]

RanFold ==
    /\ InFoldLoop
    /\ Len(solve_log) > 0
    /\ LastRun.size_index = size_index

\* C6: an iteration trains on fold i only and scores on the union of the
\* other folds: no scenario of fold i, every scenario of every other fold
\* exactly once, no remainder scenario.
C6_OutSampleIsOtherFolds ==
    RanFold
        => LET i == LastRun.fold + 1
           IN  /\ in_sample = folds[i]
               /\ Ids(out_sample) \cap Ids(folds[i]) = {}
               /\ Ids(out_sample) = UNION {Ids(folds[j]) : j \in (1 .. Len(folds)) \ {i}}
               /\ \A a, b \in 1 .. Len(out_sample) :
                     out_sample[a].id = out_sample[b].id => a = b
               /\ \A q \in (Len(folds) * CurrentSize + 1) .. Len(scenarios_copy) :
                     scenarios_copy[q].id \notin Ids(out_sample)

\* The middle one of three folds was run: its out-of-sample list holds the
\* two others.
C6_Witness ==
    /\ RanFold
    /\ Len(folds) = 3
    /\ LastRun.fold = 1
    /\ Len(out_sample) = 2

\* C7 as stated: a requested fold size above the population size fails with
\* a configuration error before any solve; the call never enters the fold
\* loop for it and never produces a summary record for it.
C7_OversizeRejected ==
    /\ \A k \in 1 .. Len(results) : results[k].in_sample_size <= Len(all_scenarios)
    /\ (pc = "fold_loop" => CurrentSize <= Len(all_scenarios))

\* C8 as stated: when every requested size is between 1 and |population|
\* and every solve ends optimal, the call does not fail, and it returns one
\* summary record per requested size, in the order requested.
C8_OneRecordPerSize ==
    ((\A j \in 1 .. Len(in_sample_sizes) : in_sample_sizes[j] <= Len(all_scenarios))
      /\ (\A k \in 1 .. Len(solve_log) : IsOptimal(solve_log[k].status)))
        => /\ pc # "raised"
           /\ pc = "returned" =>
                 /\ results_df.tag = "frame"
                 /\ Len(results_df.rows) = Len(in_sample_sizes)
                 /\ \A j \in 1 .. Len(in_sample_sizes) :
                       results_df.rows[j].in_sample_size = in_sample_sizes[j]

\* C9: a solve that does not end optimal is the last solve of the call: the
\* call ends there with an exception that reaches the caller, the caller
\* receives no records, and no record was made for the size of that fold.
C9_FailedSolveStopsSize ==
    \A k \in 1 .. Len(solve_log) :
        ~IsOptimal(solve_log[k].status)
            => /\ k = Len(solve_log)
               /\ pc = "raised"
               /\ raised.tag = "raise"
               /\ results_df = None
               /\ Len(results) = solve_log[k].size_index

\* The solve of a later fold failed after an earlier fold of the same size
\* was completed.
C9_Witness ==
    /\ pc = "raised"
    /\ Len(solve_log) >= 2
    /\ ~IsOptimal(LastRun.status)
    /\ LastRun.fold >= 1
    /\ Len(in_sample_profits) >= 1

\* C10 as stated, for the fatal error of a failed solve: after it the records
\* computed for the sizes before it (sizes within the population, whose folds
\* all ran) are available to the caller.
C10_PartialResultsKept ==
    (/\ pc = "raised"
     /\ ~IsOptimal(LastRun.status)
     /\ Len(results) > 0
     /\ \A k \in 1 .. Len(results) :
           /\ results[k].in_sample_size <= Len(all_scenarios)
           /\ results[k].avg_out_sample_profit # NaN)
        => results_df = Frame(results)

\* C11 as stated: create_model_template raises an error for an empty scenario
\* subset; it never returns a model without per-scenario variables and
\* without constraints.
C11_EmptySubsetRejected ==
    (pc = "built" /\ in_sample = <<>>)
        => /\ ret.tag = "raise"
           /\ ~(/\ ret.tag = "model"
                /\ ret.variables.delta = {}
                /\ ret.constraints.ImbalanceDef = {})

\* Every price, wind and system-state series has one value per hour.
HourlySeries ==
    /\ \A i \in 1 .. Len(price_data_da) : SeriesLen(price_data_da[i]) = horizon
    /\ \A j \in 1 .. Len(wind_data) : SeriesLen(wind_data[j]) = horizon
    /\ \A k \in 1 .. Len(power_scenarios) : SeriesLen(power_scenarios[k]) = horizon

\* The places of the returned list that hold combination (i, j, k).
PlacesOf(i, j, k) ==
    {c \in 1 .. Len(ret.items) :
        /\ ret.items[c].price_da = price_data_da[i]
        /\ ret.items[c].system = power_scenarios[k]
        /\ DOMAIN ret.items[c].wind = T
        /\ \A t \in T : ret.items[c].wind[t] = wind_data[j][t] * wind_capacity}

\* The combinations whose record has the content of combination (i, j, k).
SameContent(i, j, k) ==
    {x \in ((1 .. Len(price_data_da)) \X (1 .. Len(wind_data)))
              \X (1 .. Len(power_scenarios)) :
        /\ price_data_da[x[1][1]] = price_data_da[i]
        /\ wind_data[x[1][2]] = wind_data[j]
        /\ power_scenarios[x[2]] = power_scenarios[k]}

\* C12: for P price, W wind and K system-state series of one value per hour
\* the call returns P*W*K records, and every combination (i, j, k) is there
\* exactly once (as often as the input repeats its content): price_da is
\* price series i, system is state series k, wind[t] is wind series j at t
\* times the capacity factor.
C12_OneRecordPerCombination ==
    (pc = "combined" /\ HourlySeries)
        => /\ ret.tag = "list"
           /\ Len(ret.items) =
                 Len(price_data_da) * Len(wind_data) * Len(power_scenarios)
           /\ \A i \in 1 .. Len(price_data_da), j \in 1 .. Len(wind_data),
                 k \in 1 .. Len(power_scenarios) :
                   Cardinality(PlacesOf(i, j, k)) = Cardinality(SameContent(i, j, k))

\* Two price, two wind and two state series, all different: eight records.
C12_Witness ==
    /\ pc = "combined"
    /\ HourlySeries
    /\ Len(price_data_da) = 2 /\ price_data_da[1] # price_data_da[2]
    /\ Len(wind_data) = 2 /\ wind_data[1] # wind_data[2]
    /\ Len(power_scenarios) = 2 /\ power_scenarios[1] # power_scenarios[2]
    /\ ret.tag = "list"
    /\ Len(ret.items) = 8
    /\ \A i, j, k \in 1 .. 2 : Cardinality(PlacesOf(i, j, k)) = 1

\* C13 as stated: the call fails with a data-shape error, and returns no
\* list, whenever a price or wind series has not one value per hour or the
\* price or wind collection is empty.
C13_BadShapeRejected ==
    (/\ pc = "combined"
     /\ \/ Len(price_data_da) = 0
        \/ Len(wind_data) = 0
        \/ \E i \in 1 .. Len(price_data_da) : SeriesLen(price_data_da[i]) # horizon
        \/ \E j \in 1 .. Len(wind_data) : SeriesLen(wind_data[j]) # horizon)
        => ret.tag = "raise"

\* The smallest entry of a non-empty list of numbers.
MinOf(xs) == CHOOSE x \in {xs[k] : k \in 1 .. Len(xs)} : \A k \in 1 .. Len(xs) : x <= xs[k]

\* The risk-adjusted solves of the behaviour that ended optimal with weight b.
SolvesAt(b) ==
    {k \in 1 .. Len(solve_log) : solve_log[k].beta = b /\ IsOptimal(solve_log[k].status)}

\* C14 as stated: on the same scenario subset and scheme, the minimum
\* per-scenario profit of the strategy obtained with beta = 1 is at least
\* that of the strategy obtained with beta = 0.
C14_RiskAverseRaisesWorstCase ==
    pc = "risk_solved"
        => \A i \in SolvesAt(Rat(0, 1)), j \in SolvesAt(Rat(1, 1)) :
              MinOf(solve_log[j].ret.profits_per_scenario)
                  >= MinOf(solve_log[i].ret.profits_per_scenario)

\* The objective values of the plain expected-revenue model of Task 1.1 at
\* a set of offer vectors.
PlainValues(sch, scen, offers) ==
    {ExpectedRevenue(sch, scen, Values(scen, o, <<0, 0>>, 0)) : o \in offers}

\* C15: solved with beta = 0 the risk-adjusted model has the optimal
\* objective value and the set of optimal bid vectors of the plain
\* expected-revenue model of the same subset and scheme.
C15_BetaZeroIsPlainModel ==
    (pc = "risk_solved" /\ solve_log[Len(solve_log)].beta = Rat(0, 1))
        => LET plain == OptimalOfferVectors(scheme, in_sample)
               pairs == RiskObjectives(scheme, in_sample, Rat(0, 1), alpha)
               best == BestOf(pairs)
           IN  /\ {q[1] : q \in {x \in pairs : x[2] = best}} = plain
               /\ solution.offer_quantity \in plain
               /\ PlainValues(scheme, in_sample, plain) = {RatDiv(best, 20)}
               /\ ret.expected_revenue = RatDiv(best, 20)

\* A risk-neutral solve of a two-scenario subset whose optimum bids the
\* capacity in one hour and nothing in another.
C15_Witness ==
    /\ pc = "risk_solved"
    /\ solve_log[Len(solve_log)].beta = Rat(0, 1)
    /\ Len(in_sample) = 2
    /\ \E t \in T : solution.offer_quantity[t] = max_capacity
    /\ \E t \in T : solution.offer_quantity[t] = 0
    /\ solution.offer_quantity \in OptimalOfferVectors(scheme, in_sample)

\* The profits in ascending order.
RECURSIVE Ascending(_)
Ascending(xs) ==
    IF Len(xs) = 0
    THEN <<>>
    ELSE LET k == CHOOSE i \in 1 .. Len(xs) : \A j \in 1 .. Len(xs) : xs[i] <= xs[j]
         IN  <<xs[k]>> \o Ascending([i \in 1 .. (Len(xs) - 1) |->
                                        IF i < k THEN xs[i] ELSE xs[i + 1]])

\* The CVaR at level a of equally likely profits: the mean of the worst
\* (1 - a) fraction, a scenario counted in part where the fraction cuts it.
TailMean(profits, a) ==
    LET N == Len(profits)
        sorted == Ascending(profits)
        mass == (a.d - a.n) * N
        whole == mass \div a.d
        part == mass % a.d
    IN  Rat(a.d * SumFn(sorted, 1, whole)
              + (IF part > 0 THEN part * sorted[whole + 1] ELSE 0),
            mass)

\* C18 as stated: at a fixed bid the largest value of
\* VaR - (1/(1-alpha)) * mean(auxiliary) under the model's domains and its
\* constraints auxiliary[s] >= VaR - profit(s) is the CVaR at level alpha of
\* the per-scenario profits, negative profits included.
C18_LinearisationIsCVaR ==
    pc = "risk_evaluated"
        => lp_revenue = TailMean(ProfitsAtOffers(scheme, in_sample, fixed_bid), alpha)


\* The revenue evaluate_profit books for hour t of scenario s of the evaluated
\* subset under a scheme, at the fixed bid.
EvaluatedHourRevenue(sch, s, t) ==
    HourRevenue(sch, fixed_bid[t], in_sample[s].wind[t],
                in_sample[s].price_da[t], in_sample[s].system[t])

\* C16: for every bid vector, every scenario with non-negative prices and
\* every hour, the two-price revenue of evaluate_profit is at most the
\* one-price revenue, and the two are equal in the hours where the imbalance
\* is an excess while the system is in deficit (flag 1) or a deficit while
\* the system is in surplus (flag 0).
C16_TwoPriceAtMostOnePrice ==
    pc = "evaluated" =>
        \A s \in 1 .. Len(in_sample) :
            (\A h \in T : in_sample[s].price_da[h] >= 0) =>
                \A t \in T :
                    LET imbalance == in_sample[s].wind[t] - fixed_bid[t]
                        flag == in_sample[s].system[t]
                    IN  /\ EvaluatedHourRevenue("two", s, t) <= EvaluatedHourRevenue("one", s, t)
                        /\ ((imbalance >= 0 /\ flag = 1) \/ (imbalance < 0 /\ flag = 0))
                              => EvaluatedHourRevenue("two", s, t) = EvaluatedHourRevenue("one", s, t)

\* Positive-price scenario hours were scored with an excess in a surplus
\* hour (the two-price revenue strictly below) and with a deficit in a
\* surplus hour (the two equal).
C16_Witness ==
    /\ pc = "evaluated"
    /\ eval_profit.tag = "num"
    /\ \E s \in 1 .. Len(in_sample), t \in T :
          /\ \A h \in T : in_sample[s].price_da[h] > 0
          /\ in_sample[s].wind[t] > fixed_bid[t]
          /\ in_sample[s].system[t] = 0
          /\ EvaluatedHourRevenue("two", s, t) < EvaluatedHourRevenue("one", s, t)
    /\ \E s \in 1 .. Len(in_sample), t \in T :
          /\ \A h \in T : in_sample[s].price_da[h] > 0
          /\ in_sample[s].wind[t] < fixed_bid[t]
          /\ in_sample[s].system[t] = 0
          /\ EvaluatedHourRevenue("two", s, t) = EvaluatedHourRevenue("one", s, t)

\* delta_exc and delta_def of cell (s, t) of the loaded solution are not both
\* non-zero.
Complementary(s, t) ==
    solution.delta_exc[s][t] = 0 \/ solution.delta_def[s][t] = 0

ReportTotal(frame) ==
    RatSum([k \in 1 .. horizon |-> frame.rows[k - 1].expected_revenue], horizon)

\* C19: the per-hour average revenues of the report solve_and_extract returns
\* sum over the hours to the expected profit of the objective at the same
\* solution, whatever the system flags are.
C19_HourlyRevenuesSumToObjective ==
    (pc = "solved" /\ IsOptimal(result) /\ ret.tag = "frame")
        => ReportTotal(ret) = ExpectedRevenue(scheme, in_sample, solution)

\* C20: run_cross_validation_for_sizes never changes the order or the content
\* of the caller's population list, and the folds it builds for a size are
\* those of the seeded shuffle of that list cut at that size, whatever sizes
\* were processed before.
C20_PopulationUntouched ==
    /\ all_scenarios \in {<<>>} \cup Populations(Len(all_scenarios))
    /\ pc = "fold_loop"
          => LET n == in_sample_sizes[size_index + 1]
             IN  /\ scenarios_copy = Shuffled(all_scenarios, shuffle_order)
                 /\ folds = Folds(Shuffled(all_scenarios, shuffle_order), n,
                                  Len(all_scenarios) \div n)

\* The folds of a second size are being run after a different first size was
\* processed, on a population the seeded shuffle reorders.
C20_Witness ==
    /\ pc = "fold_loop"
    /\ size_index = 1
    /\ in_sample_sizes[1] # in_sample_sizes[2]
    /\ Len(results) = 1
    /\ Len(folds) >= 2
    /\ Shuffled(all_scenarios, shuffle_order) # all_scenarios
    /\ all_scenarios \in Populations(Len(all_scenarios))
    /\ fold_index >= 1

\* The scenarios of the model of the call for fold i when the folds are run
\* in the order of the code, 1, 2, ....
RECURSIVE CodeOrderModel(_, _)
CodeOrderModel(fs, i) ==
    IF i = 0 THEN <<>> ELSE ModelScenarios(CodeOrderModel(fs, i - 1), fs[i])

\* What the fold loop of the code gets for fold i, run after folds 1 .. i - 1.
CodeOrderPair(i) ==
    FoldRun(solver, scheme, folds, i, CodeOrderModel(folds, i - 1)).pair

====
